---- MODULE Spec2Model ----
(***************************************************************************)
(* Model of dynamodb_extractor.py: the typed-value decoder, the entity     *)
(* pattern detector, the filter prompt / predicate engine and the export   *)
(* pipeline (table-scan entry and JSON-file entry).                        *)
(*                                                                         *)
(* Text is a sequence of one-character strings, so that split, strip,      *)
(* startswith, fnmatch and sorted() are computed rather than assumed.      *)
(* An AttributeValue is a record with one field per wire-format tag        *)
(* ("S" \in DOMAIN v models Python's  'S' in value).  A raw item is a      *)
(* function from attribute name (Text) to AttributeValue.                  *)
(***************************************************************************)
EXTENDS Integers, Sequences, FiniteSets, TLC

VARIABLES pc, entry, sample_arg, has_more, scans, all_items, schema_stats,
          entity_patterns, entered, filters, filtered_items, simplified_items,
          sorted_keys, sink, outcome

vars == <<pc, entry, sample_arg, has_more, scans, all_items, schema_stats,
          entity_patterns, entered, filters, filtered_items, simplified_items,
          sorted_keys, sink, outcome>>

(***************************************************************************)
(* Bounds of the model.                                                    *)
(***************************************************************************)
MaxItems == 2
MaxLines == 2
MaxScans == 2

(***************************************************************************)
(* Text primitives (Python str operations used by the program).            *)
(***************************************************************************)
Ascii == <<" ", "!", "\"", "#", "$", "%", "&", "'", "(", ")", "*", "+", ",",
           "-", ".", "/", "0", "1", "2", "3", "4", "5", "6", "7", "8", "9",
           ":", ";", "<", "=", ">", "?", "@", "A", "B", "C", "D", "E", "F",
           "G", "H", "I", "J", "K", "L", "M", "N", "O", "P", "Q", "R", "S",
           "T", "U", "V", "W", "X", "Y", "Z", "[", "backslash", "]", "^", "_",
           "backtick",
           "a", "b", "c", "d", "e", "f", "g", "h", "i", "j", "k", "l", "m",
           "n", "o", "p", "q", "r", "s", "t", "u", "v", "w", "x", "y", "z",
           "{", "|", "}", "~">>

Ord(c) == 31 + (CHOOSE i \in 1..Len(Ascii) : Ascii[i] = c)

Digits == <<"0", "1", "2", "3", "4", "5", "6", "7", "8", "9">>

IsDigitChar(c) == \E i \in 1..10 : Digits[i] = c

DigitVal(c) == (CHOOSE i \in 1..10 : Digits[i] = c) - 1

Contains(t, c) == \E i \in 1..Len(t) : t[i] = c

IndexOf(t, c) == IF Contains(t, c)
                 THEN CHOOSE i \in 1..Len(t) : t[i] = c /\ \A j \in 1..(i - 1) : t[j] /= c
                 ELSE 0

RECURSIVE LStrip(_)
LStrip(t) == IF t /= <<>> /\ Head(t) = " " THEN LStrip(Tail(t)) ELSE t

RECURSIVE RStrip(_)
RStrip(t) == IF t /= <<>> /\ t[Len(t)] = " " THEN RStrip(SubSeq(t, 1, Len(t) - 1)) ELSE t

Strip(t) == RStrip(LStrip(t))

StartsWith(t, p) == Len(t) >= Len(p) /\ SubSeq(t, 1, Len(p)) = p

\* str.isdigit() over ASCII text: non-empty and all characters are digits
isdigit(t) == t /= <<>> /\ \A i \in 1..Len(t) : IsDigitChar(t[i])

\* str.split(sep): the list of segments between occurrences of sep
RECURSIVE split(_, _)
split(t, sep) == IF ~Contains(t, sep) THEN <<t>>
                 ELSE <<SubSeq(t, 1, IndexOf(t, sep) - 1)>>
                      \o split(SubSeq(t, IndexOf(t, sep) + 1, Len(t)), sep)

\* str.split(sep, 1): split on the first occurrence only
split1(t, sep) == <<SubSeq(t, 1, IndexOf(t, sep) - 1),
                    SubSeq(t, IndexOf(t, sep) + 1, Len(t))>>

\* sep.join(parts)
RECURSIVE join(_, _)
join(sep, parts) == IF parts = <<>> THEN <<>>
                    ELSE IF Len(parts) = 1 THEN parts[1]
                    ELSE parts[1] \o sep \o join(sep, Tail(parts))

\* the < of Python str: code-point lexicographic order
RECURSIVE StrLess(_, _)
StrLess(a, b) == IF b = <<>> THEN FALSE
                 ELSE IF a = <<>> THEN TRUE
                 ELSE IF Head(a) = Head(b) THEN StrLess(Tail(a), Tail(b))
                 ELSE Ord(Head(a)) < Ord(Head(b))

\* fnmatch.fnmatch on POSIX (normcase is the identity): * any run, ? any one
\* character, anything else literal; anchored on the whole name.
RECURSIVE fnmatch(_, _)
fnmatch(name, pat) ==
    IF pat = <<>> THEN name = <<>>
    ELSE IF Head(pat) = "*"
         THEN fnmatch(name, Tail(pat)) \/ (name /= <<>> /\ fnmatch(Tail(name), pat))
    ELSE IF Head(pat) = "?"
         THEN name /= <<>> /\ fnmatch(Tail(name), Tail(pat))
    ELSE name /= <<>> /\ Head(name) = Head(pat) /\ fnmatch(Tail(name), Tail(pat))

(***************************************************************************)
(* Python str() / repr() and json.dumps of wire-format values.             *)
(* A Binary payload is [bytes |-> text] (boto3 client) or [b64 |-> text]   *)
(* (base64 text when the items were loaded from a JSON file).              *)
(***************************************************************************)
Quote(t) == <<"'">> \o t \o <<"'">>

DQuote(t) == <<"\"">> \o t \o <<"\"">>

BinRepr(b) == IF "bytes" \in DOMAIN b THEN <<"b">> \o Quote(b.bytes) ELSE Quote(b.b64)

\* str(b) for one Binary payload
BinStr(b) == IF "bytes" \in DOMAIN b THEN <<"b">> \o Quote(b.bytes) ELSE b.b64

StrBool(b) == IF b THEN <<"T", "r", "u", "e">> ELSE <<"F", "a", "l", "s", "e">>

ListRepr(parts) == <<"[">> \o join(<<",", " ">>, parts) \o <<"]">>

RECURSIVE PyRepr(_)
PyRepr(v) ==
    LET body(tag, payload) == <<"{">> \o Quote(tag) \o <<":", " ">> \o payload \o <<"}">>
    IN  IF "S" \in DOMAIN v THEN body(<<"S">>, Quote(v.S))
        ELSE IF "N" \in DOMAIN v THEN body(<<"N">>, Quote(v.N))
        ELSE IF "B" \in DOMAIN v THEN body(<<"B">>, BinRepr(v.B))
        ELSE IF "BOOL" \in DOMAIN v THEN body(<<"B", "O", "O", "L">>, StrBool(v.BOOL))
        ELSE IF "NULL" \in DOMAIN v THEN body(<<"N", "U", "L", "L">>, StrBool(v.NULL))
        ELSE IF "SS" \in DOMAIN v
             THEN body(<<"S", "S">>, ListRepr([i \in 1..Len(v.SS) |-> Quote(v.SS[i])]))
        ELSE IF "NS" \in DOMAIN v
             THEN body(<<"N", "S">>, ListRepr([i \in 1..Len(v.NS) |-> Quote(v.NS[i])]))
        ELSE IF "BS" \in DOMAIN v
             THEN body(<<"B", "S">>, ListRepr([i \in 1..Len(v.BS) |-> BinRepr(v.BS[i])]))
        ELSE IF "L" \in DOMAIN v
             THEN body(<<"L">>, ListRepr([i \in 1..Len(v.L) |-> PyRepr(v.L[i])]))
        ELSE IF "M" \in DOMAIN v
             THEN body(<<"M">>, <<"{">> \o Quote(v.M.k) \o <<":", " ">> \o PyRepr(v.M.v) \o <<"}">>)
        ELSE body(<<"X">>, Quote(v.X))

\* decimal_default: the json.dumps hook; float for a Decimal, TypeError otherwise
decimal_default(obj) == IF "decimal" \in DOMAIN obj
                        THEN [ok |-> TRUE, text |-> obj.decimal]
                        ELSE [ok |-> FALSE, text |-> <<>>]

JsonBool(b) == IF b THEN <<"t", "r", "u", "e">> ELSE <<"f", "a", "l", "s", "e">>

JsonPair(tag, r) == [ok |-> r.ok,
                     text |-> <<"{">> \o DQuote(tag) \o <<":", " ">> \o r.text \o <<"}">>]

RECURSIVE JsonList(_, _)
\* json.dumps of one wire-format value nested in a List or Map: a str payload
\* is a JSON string, a bool is true/false, and any object json cannot encode
\* (bytes) goes to the default hook.
RECURSIVE JsonValue(_)
JsonValue(v) ==
    IF "S" \in DOMAIN v THEN JsonPair(<<"S">>, [ok |-> TRUE, text |-> DQuote(v.S)])
    ELSE IF "N" \in DOMAIN v THEN JsonPair(<<"N">>, [ok |-> TRUE, text |-> DQuote(v.N)])
    ELSE IF "B" \in DOMAIN v
         THEN JsonPair(<<"B">>, IF "bytes" \in DOMAIN v.B THEN decimal_default(v.B)
                                ELSE [ok |-> TRUE, text |-> DQuote(v.B.b64)])
    ELSE IF "BOOL" \in DOMAIN v
         THEN JsonPair(<<"B", "O", "O", "L">>, [ok |-> TRUE, text |-> JsonBool(v.BOOL)])
    ELSE IF "NULL" \in DOMAIN v
         THEN JsonPair(<<"N", "U", "L", "L">>, [ok |-> TRUE, text |-> JsonBool(v.NULL)])
    ELSE IF "L" \in DOMAIN v THEN JsonPair(<<"L">>, JsonList(v.L, 1))
    ELSE JsonPair(<<"X">>, [ok |-> TRUE, text |-> DQuote(v.X)])

JsonList(l, i) ==
    LET RECURSIVE elems(_)
        elems(j) == IF j > Len(l) THEN [ok |-> TRUE, parts |-> <<>>]
                    ELSE LET r == JsonValue(l[j]) rest == elems(j + 1)
                         IN  [ok |-> r.ok /\ rest.ok, parts |-> <<r.text>> \o rest.parts]
        all == elems(i)
    IN  [ok |-> all.ok, text |-> <<"[">> \o join(<<",", " ">>, all.parts) \o <<"]">>]

\* json.dumps(value['M'], default=decimal_default) for a one-entry map
JsonMap(m) == LET r == JsonValue(m.v)
              IN  [ok |-> r.ok,
                   text |-> <<"{">> \o DQuote(m.k) \o <<":", " ">> \o r.text \o <<"}">>]

(***************************************************************************)
(* Typed value decoder: convert_dynamodb_item_to_dict.                     *)
(* A decoded cell is [str |-> text], [int |-> n], [float |-> <<m, k>>]     *)
(* (the number m / 10^k), [bool |-> b] or [none |-> TRUE].                 *)
(* Number payloads are modelled over digits, sign and "." ; exponent       *)
(* notation, "inf"/"nan", "_" and surrounding whitespace are not drawn.    *)
(***************************************************************************)
RECURSIVE IntOfDigits(_)
IntOfDigits(t) == IF t = <<>> THEN 0
                  ELSE 10 * IntOfDigits(SubSeq(t, 1, Len(t) - 1)) + DigitVal(t[Len(t)])

HasSign(t) == t /= <<>> /\ (Head(t) = "-" \/ Head(t) = "+")

Unsigned(t) == IF HasSign(t) THEN Tail(t) ELSE t

Signed(t, n) == IF t /= <<>> /\ Head(t) = "-" THEN 0 - n ELSE n

\* int(text): ValueError unless an optional sign followed by digits
py_int(t) == IF isdigit(Unsigned(t))
             THEN [ok |-> TRUE, cell |-> [int |-> Signed(t, IntOfDigits(Unsigned(t)))]]
             ELSE [ok |-> FALSE, cell |-> [none |-> TRUE]]

\* float(text) for text containing "." : ValueError unless sign, digits, one
\* point, digits, with at least one digit
py_float(t) ==
    LET u    == Unsigned(t)
        p    == IndexOf(u, ".")
        ip   == SubSeq(u, 1, p - 1)
        fp   == SubSeq(u, p + 1, Len(u))
        good == /\ \A i \in 1..Len(ip) : IsDigitChar(ip[i])
                /\ \A i \in 1..Len(fp) : IsDigitChar(fp[i])
                /\ Len(ip) + Len(fp) > 0
    IN  IF good
        THEN [ok |-> TRUE, cell |-> [float |-> <<Signed(t, IntOfDigits(ip \o fp)), Len(fp)>>]]
        ELSE [ok |-> FALSE, cell |-> [none |-> TRUE]]

\* the body of the loop of convert_dynamodb_item_to_dict for one value:
\* [ok |-> FALSE] when the statement raises
convert_value(value) ==
    IF "S" \in DOMAIN value THEN [ok |-> TRUE, cell |-> [str |-> value.S]]
    ELSE IF "N" \in DOMAIN value
         THEN LET r == IF Contains(value.N, ".") THEN py_float(value.N) ELSE py_int(value.N)
              IN  IF r.ok THEN r ELSE [ok |-> TRUE, cell |-> [str |-> value.N]]
    ELSE IF "B" \in DOMAIN value THEN [ok |-> TRUE, cell |-> [str |-> BinStr(value.B)]]
    ELSE IF "BOOL" \in DOMAIN value THEN [ok |-> TRUE, cell |-> [bool |-> value.BOOL]]
    ELSE IF "NULL" \in DOMAIN value THEN [ok |-> TRUE, cell |-> [none |-> TRUE]]
    ELSE IF "SS" \in DOMAIN value
         THEN [ok |-> TRUE, cell |-> [str |-> join(<<",", " ">>, value.SS)]]
    ELSE IF "NS" \in DOMAIN value
         THEN [ok |-> TRUE, cell |-> [str |-> join(<<",", " ">>, value.NS)]]
    ELSE IF "BS" \in DOMAIN value
         THEN [ok |-> TRUE,
               cell |-> [str |-> join(<<",", " ">>,
                                      [i \in 1..Len(value.BS) |-> BinStr(value.BS[i])])]]
    ELSE IF "L" \in DOMAIN value
         THEN LET r == JsonList(value.L, 1)
              IN  [ok |-> r.ok, cell |-> [str |-> r.text]]
    ELSE IF "M" \in DOMAIN value
         THEN LET r == JsonMap(value.M)
              IN  [ok |-> r.ok, cell |-> [str |-> r.text]]
    ELSE [ok |-> TRUE, cell |-> [str |-> PyRepr(value)]]

\* [ok |-> TRUE, row |-> the decoded dict], or [ok |-> FALSE] when the
\* conversion of some value raises
convert_dynamodb_item_to_dict(item) ==
    [ok  |-> \A key \in DOMAIN item : convert_value(item[key]).ok,
     row |-> [key \in DOMAIN item |-> convert_value(item[key]).cell]]

(***************************************************************************)
(* Schema profiler: analyze_table_schema.                                  *)
(* attribute_stats maps an attribute name to [count, sample_values,        *)
(* data_types]; a name outside its DOMAIN is a key the defaultdict has not *)
(* created yet.                                                            *)
(***************************************************************************)
sample_size == 100

sample_values_cap == 10

\* variant of sample_items that ignores the sample size
sample_items_all(items, n) == items

sample_items(items, n) == IF Len(items) > n THEN SubSeq(items, 1, n) ELSE items

\* the type name the if/elif chain adds for one value (none for Binary,
\* Binary Set and unrecognized tags)
data_type(value) ==
    IF "S" \in DOMAIN value THEN {"String"}
    ELSE IF "N" \in DOMAIN value THEN {"Number"}
    ELSE IF "BOOL" \in DOMAIN value THEN {"Boolean"}
    ELSE IF "NULL" \in DOMAIN value THEN {"Null"}
    ELSE IF "SS" \in DOMAIN value THEN {"String Set"}
    ELSE IF "NS" \in DOMAIN value THEN {"Number Set"}
    ELSE IF "L" \in DOMAIN value THEN {"List"}
    ELSE IF "M" \in DOMAIN value THEN {"Map"}
    ELSE {}

\* the body of "for key, value in item.items()" for one attribute
attribute_update(old, value) ==
    [count         |-> old.count + 1,
     sample_values |-> IF "S" \in DOMAIN value
                          /\ Cardinality(old.sample_values) < sample_values_cap
                       THEN old.sample_values \cup {value.S}
                       ELSE old.sample_values,
     data_types    |-> old.data_types \cup data_type(value)]

\* attribute_stats after one sampled item
analyze_item(stats, item) ==
    [key \in DOMAIN stats \cup DOMAIN item |->
        IF key \in DOMAIN item
        THEN attribute_update(IF key \in DOMAIN stats THEN stats[key]
                              ELSE [count |-> 0, sample_values |-> {}, data_types |-> {}],
                              item[key])
        ELSE stats[key]]

RECURSIVE analyze_loop(_, _, _)
analyze_loop(stats, items, i) ==
    IF i > Len(items) THEN stats
    ELSE analyze_loop(analyze_item(stats, items[i]), items, i + 1)

analyze_table_schema(items, n) ==
    IF items = <<>> THEN <<>>
    ELSE analyze_loop(<<>>, sample_items(items, n), 1)

(***************************************************************************)
(* Entity pattern detector: detect_entity_types.                           *)
(***************************************************************************)
type_keys == << <<"E", "n", "t", "i", "t", "y", "T", "y", "p", "e">>,
                <<"e", "n", "t", "i", "t", "y", "_", "t", "y", "p", "e">>,
                <<"t", "y", "p", "e">>,
                <<"T", "y", "p", "e">> >>

sk_keys == << <<"s", "o", "r", "t", "K", "e", "y">>,
              <<"S", "K">>,
              <<"s", "k">>,
              <<"s", "o", "r", "t", "_", "k", "e", "y">> >>

pk_keys == << <<"p", "a", "r", "t", "i", "t", "i", "o", "n", "K", "e", "y">>,
              <<"P", "K">>,
              <<"p", "k">>,
              <<"p", "a", "r", "t", "i", "t", "i", "o", "n", "_", "k", "e", "y">> >>

LblEntityType == <<"E", "n", "t", "i", "t", "y", "T", "y", "p", "e", ":", " ">>

LblSKPrefix == <<"S", "K", " ", "p", "r", "e", "f", "i", "x", ":", " ">>

LblSK == <<"S", "K", ":", " ">>

LblPKContains == <<"P", "K", " ", "c", "o", "n", "t", "a", "i", "n", "s", ":", " ">>

LblUnknown == <<"u", "n", "k", "n", "o", "w", "n">>

\* the labels one explicit-type alias appends
type_labels(item, key) ==
    IF key \in DOMAIN item /\ "S" \in DOMAIN item[key]
    THEN <<LblEntityType \o item[key].S>>
    ELSE <<>>

\* the labels one sort-key alias appends
sk_labels(item, key) ==
    IF key \in DOMAIN item /\ "S" \in DOMAIN item[key]
    THEN LET sk_value == item[key].S
         IN  IF Contains(sk_value, "#") THEN <<LblSKPrefix \o split(sk_value, "#")[1]>>
             ELSE IF sk_value /= <<>> THEN <<LblSK \o sk_value>>
             ELSE <<>>
    ELSE <<>>

RECURSIVE pk_part_labels(_)
pk_part_labels(parts) ==
    IF parts = <<>> THEN <<>>
    ELSE (IF Head(parts) /= <<>> /\ ~isdigit(Head(parts))
          THEN <<LblPKContains \o Head(parts)>> ELSE <<>>)
         \o pk_part_labels(Tail(parts))

\* the labels one partition-key alias appends
pk_labels(item, key) ==
    IF key \in DOMAIN item /\ "S" \in DOMAIN item[key]
    THEN LET pk_value == item[key].S
         IN  IF Contains(pk_value, "#") THEN pk_part_labels(split(pk_value, "#")) ELSE <<>>
    ELSE <<>>

RECURSIVE Flatten(_)
Flatten(ss) == IF ss = <<>> THEN <<>> ELSE Head(ss) \o Flatten(Tail(ss))

\* for key in ['EntityType', 'entity_type', 'type', 'Type']: ...
type_patterns(item) == Flatten([i \in 1..Len(type_keys) |-> type_labels(item, type_keys[i])])

\* for key in ['sortKey', 'SK', 'sk', 'sort_key']: ...
sk_patterns(item) == Flatten([i \in 1..Len(sk_keys) |-> sk_labels(item, sk_keys[i])])

\* for key in ['partitionKey', 'PK', 'pk', 'partition_key']: ...
pk_patterns(item) == Flatten([i \in 1..Len(pk_keys) |-> pk_labels(item, pk_keys[i])])

\* the alias a loop with a break would stop at: the first one the item
\* carries String-typed (<<>> if there is none)
break_at(item, keys) ==
    LET hits == {i \in 1..Len(keys) : keys[i] \in DOMAIN item /\ "S" \in DOMAIN item[keys[i]]}
    IN  IF hits = {} THEN <<>> ELSE <<keys[CHOOSE i \in hits : \A j \in hits : i <= j]>>

\* variant of item_patterns whose loops break after the first String-typed alias
item_patterns_first_alias(item) ==
    LET tk == break_at(item, type_keys)
        sk == break_at(item, sk_keys)
        pk == break_at(item, pk_keys)
        patterns == (IF tk = <<>> THEN <<>> ELSE type_labels(item, tk[1]))
                    \o (IF sk = <<>> THEN <<>> ELSE sk_labels(item, sk[1]))
                    \o (IF pk = <<>> THEN <<>> ELSE pk_labels(item, pk[1]))
    IN  IF patterns = <<>> THEN <<LblUnknown>> ELSE patterns

\* the list "patterns" built for one sampled item
item_patterns(item) ==
    LET patterns == type_patterns(item) \o sk_patterns(item) \o pk_patterns(item)
    IN  IF patterns = <<>> THEN <<LblUnknown>> ELSE patterns

\* entity_patterns[pattern] += 1 for each pattern of the list
RECURSIVE count_patterns(_, _)
count_patterns(counts, patterns) ==
    IF patterns = <<>> THEN counts
    ELSE LET p == Head(patterns)
         IN  count_patterns(IF p \in DOMAIN counts
                            THEN [counts EXCEPT ![p] = @ + 1]
                            ELSE counts @@ (p :> 1),
                            Tail(patterns))

RECURSIVE detect_loop(_, _, _)
detect_loop(counts, items, i) ==
    IF i > Len(items) THEN counts
    ELSE detect_loop(count_patterns(counts, item_patterns(items[i])), items, i + 1)

detect_entity_types(items, n) ==
    IF items = <<>> THEN <<>>
    ELSE detect_loop(<<>>, sample_items(items, n), 1)

(***************************************************************************)
(* Filter prompt: the body of the input loop of prompt_for_filters.        *)
(* filters is the Python dict, kept as the sequence of its <<key, value>>  *)
(* entries in insertion order.                                             *)
(***************************************************************************)
\* filters[key] = value
dict_set(d, key, value) ==
    IF \E i \in 1..Len(d) : d[i][1] = key
    THEN [i \in 1..Len(d) |-> IF d[i][1] = key THEN <<key, value>> ELSE d[i]]
    ELSE Append(d, <<key, value>>)

\* key, value = filter_input.split('=', 1); filters[key.strip()] = value.strip()
add_filter(d, filter_input) ==
    LET kv == split1(filter_input, "=")
    IN  dict_set(d, Strip(kv[1]), Strip(kv[2]))

(***************************************************************************)
(* Predicate engine: apply_filters.                                        *)
(***************************************************************************)
EmptyQuotes == <<"\"", "\"">>

NotEqualsPrefix == <<"!", "=">>

\* "actual_value" of the not-equals branch
actual_value_ne(v) ==
    IF "S" \in DOMAIN v THEN v.S
    ELSE IF "N" \in DOMAIN v THEN v.N
    ELSE IF "BOOL" \in DOMAIN v THEN StrBool(v.BOOL)
    ELSE IF "NULL" \in DOMAIN v THEN <<>>
    ELSE PyRepr(v)

\* "actual_value" of the regular branch
actual_value(v) ==
    IF "S" \in DOMAIN v THEN v.S
    ELSE IF "N" \in DOMAIN v THEN v.N
    ELSE IF "BOOL" \in DOMAIN v THEN StrBool(v.BOOL)
    ELSE IF "NULL" \in DOMAIN v THEN <<>>
    ELSE PyRepr(v)

\* variant of empty_branch that ignores the truth value of the NULL payload
empty_branch_any_null(item, filter_key) ==
    IF filter_key \notin DOMAIN item THEN TRUE
    ELSE IF "NULL" \in DOMAIN item[filter_key] THEN TRUE
    ELSE IF "S" \in DOMAIN item[filter_key] /\ item[filter_key].S = <<>> THEN TRUE
    ELSE FALSE

\* the branch  if filter_value == "" or filter_value == '""'
empty_branch(item, filter_key) ==
    IF filter_key \notin DOMAIN item THEN TRUE
    ELSE IF "NULL" \in DOMAIN item[filter_key] /\ item[filter_key].NULL THEN TRUE
    ELSE IF "S" \in DOMAIN item[filter_key] /\ item[filter_key].S = <<>> THEN TRUE
    ELSE FALSE

\* variant of not_equals_branch without the special case of the empty target
not_equals_branch_absent_passes(item, filter_key, filter_value) ==
    LET target_value == SubSeq(filter_value, 3, Len(filter_value))
    IN  IF filter_key \notin DOMAIN item
        THEN TRUE
        ELSE actual_value_ne(item[filter_key]) /= target_value

\* the branch  elif filter_value.startswith("!=")
not_equals_branch(item, filter_key, filter_value) ==
    LET target_value == SubSeq(filter_value, 3, Len(filter_value))
    IN  IF filter_key \notin DOMAIN item
        THEN target_value /= <<>>
        ELSE actual_value_ne(item[filter_key]) /= target_value

\* variant of regular_branch that compares exactly even when there is a "*"
regular_branch_exact(item, filter_key, filter_value) ==
    IF filter_key \notin DOMAIN item THEN FALSE
    ELSE actual_value(item[filter_key]) = filter_value

\* the branch  else  (regular value filtering)
regular_branch(item, filter_key, filter_value) ==
    IF filter_key \notin DOMAIN item THEN FALSE
    ELSE IF Contains(filter_value, "*")
         THEN fnmatch(actual_value(item[filter_key]), filter_value)
         ELSE actual_value(item[filter_key]) = filter_value

\* one iteration of "for filter_key, filter_value in filters.items()":
\* TRUE when the loop continues, FALSE when it sets match = False and breaks
filter_passes(item, filter_key, filter_value) ==
    IF filter_value = <<>> \/ filter_value = EmptyQuotes
    THEN empty_branch(item, filter_key)
    ELSE IF StartsWith(filter_value, NotEqualsPrefix)
    THEN not_equals_branch(item, filter_key, filter_value)
    ELSE regular_branch(item, filter_key, filter_value)

\* the inner loop for one item: the value of "match" when the loop ends
RECURSIVE item_match(_, _, _)
item_match(item, d, i) ==
    IF i > Len(d) THEN TRUE
    ELSE IF filter_passes(item, d[i][1], d[i][2]) THEN item_match(item, d, i + 1)
    ELSE FALSE

RECURSIVE filter_loop(_, _, _)
filter_loop(items, d, i) ==
    IF i > Len(items) THEN <<>>
    ELSE (IF item_match(items[i], d, 1) THEN <<items[i]>> ELSE <<>>)
         \o filter_loop(items, d, i + 1)

apply_filters(items, d) == IF d = <<>> THEN items ELSE filter_loop(items, d, 1)

(***************************************************************************)
(* sorted(all_keys)                                                        *)
(***************************************************************************)
\* variant of sorted that yields descending order
RECURSIVE sorted_descending(_)
sorted_descending(S) ==
    IF S = {} THEN <<>>
    ELSE LET m == CHOOSE x \in S : \A y \in S \ {x} : StrLess(y, x)
         IN  <<m>> \o sorted_descending(S \ {m})

RECURSIVE sorted(_)
sorted(S) == IF S = {} THEN <<>>
             ELSE LET m == CHOOSE x \in S : \A y \in S \ {x} : StrLess(x, y)
                  IN  <<m>> \o sorted(S \ {m})

\* variant of all_keys_of that takes the header from the first row alone
all_keys_of_first_row(rows) == IF rows = <<>> THEN {} ELSE DOMAIN rows[1]

all_keys_of(rows) == UNION {DOMAIN rows[i] : i \in 1..Len(rows)}

(***************************************************************************)
(* Inputs of the export pipeline: what the table (or the JSON file) may    *)
(* hold and what the operator may type.                                    *)
(***************************************************************************)
kPK == <<"P", "K">>

kSK == <<"S", "K">>

kAge == <<"a", "g", "e">>

kStatus == <<"s", "t", "a", "t", "u", "s">>

kName == <<"n", "a", "m", "e">>

kData == <<"d", "a", "t", "a">>

ItemUser1 == (kPK :> [S |-> <<"U", "S", "E", "R", "#", "1">>]) @@ (kSK :> [S |-> <<"P", "R", "O", "F", "I", "L", "E", "#", "1">>]) @@ (kAge :> [N |-> <<"3", "0">>])

ItemUser2 == (kPK :> [S |-> <<"U", "S", "E", "R", "#", "2">>]) @@ (kSK :> [S |-> <<"O", "R", "D", "E", "R", "#", "9">>]) @@ (kAge :> [N |-> <<"4", "1">>])

ItemInactive == (kStatus :> [S |-> <<"I", "N", "A", "C", "T", "I", "V", "E">>])

ItemActive == (kStatus :> [S |-> <<"A", "C", "T", "I", "V", "E">>])

ItemAb == (kName :> [S |-> <<"a", "b">>])

ItemBz == (kName :> [S |-> <<"b", "z">>])

ItemBlob == (kData :> [L |-> <<[B |-> [bytes |-> <<"x">>]]>>]) @@ (kName :> [S |-> <<"a", "z">>])

ItemPool == {ItemUser1, ItemUser2, ItemInactive, ItemActive, ItemAb, ItemBz, ItemBlob}

RECURSIVE ValueHasBytes(_)
ValueHasBytes(v) ==
    IF "B" \in DOMAIN v THEN "bytes" \in DOMAIN v.B
    ELSE IF "BS" \in DOMAIN v THEN \E i \in 1..Len(v.BS) : "bytes" \in DOMAIN v.BS[i]
    ELSE IF "L" \in DOMAIN v THEN \E i \in 1..Len(v.L) : ValueHasBytes(v.L[i])
    ELSE IF "M" \in DOMAIN v THEN ValueHasBytes(v.M.v)
    ELSE FALSE

\* json.load never produces a bytes object
JsonItemPool == {it \in ItemPool : \A k \in DOMAIN it : ~ValueHasBytes(it[k])}

LineSKProfile == <<"S", "K", "=", "P", "R", "O", "F", "I", "L", "E", "*">>

LineStatusNe == <<"s", "t", "a", "t", "u", "s", "!", "=", "A", "C", "T", "I", "V", "E">>

LineStatusEqNe == <<"s", "t", "a", "t", "u", "s", "=", "!", "=", "A", "C", "T", "I", "V", "E">>

LineNameA == <<"n", "a", "m", "e", "=", "a", "*">>

LineNameZ == <<"n", "a", "m", "e", "=", "*", "z">>

LineAgeEmpty == <<" ", "a", "g", "e", " ", "=", " ">>

LineNoEquals == <<"n", "a", "m", "e">>

LinePool == {<<>>, LineSKProfile, LineStatusNe, LineStatusEqNe, LineNameA, LineNameZ,
             LineAgeEmpty, LineNoEquals}

SeqsUpTo(S, n) == UNION {[1..k -> S] : k \in 0..n}

(***************************************************************************)
(* The export pipeline: extract_dynamodb_to_csv (entry = "scan") and       *)
(* extract_from_json_file (entry = "json").                                *)
(***************************************************************************)
NoSink == [invoked |-> FALSE, columns |-> <<>>, rows |-> <<>>]

Init ==
    /\ pc = "start"
    /\ entry \in {"scan", "json"}
    /\ sample_arg = sample_size
    /\ has_more = FALSE
    /\ scans = 0
    /\ all_items = <<>>
    /\ schema_stats = <<>>
    /\ entity_patterns = <<>>
    /\ entered = <<>>
    /\ filters = <<>>
    /\ filtered_items = <<>>
    /\ simplified_items = <<>>
    /\ sorted_keys = <<>>
    /\ sink = NoSink
    /\ outcome = "running"

\* response = dynamodb.scan(TableName=table_name); all_items = response['Items']
ScanFirst ==
    /\ pc = "start" /\ entry = "scan"
    /\ \E page \in SeqsUpTo(ItemPool, MaxItems), more \in BOOLEAN :
          /\ all_items' = page
          /\ has_more' = more
          /\ pc' = IF more THEN "scan" ELSE "loaded"
    /\ scans' = 1
    /\ UNCHANGED <<entry, sample_arg, schema_stats, entity_patterns, entered, filters, filtered_items,
                   simplified_items, sorted_keys, sink, outcome>>

\* while 'LastEvaluatedKey' in response: all_items.extend(response['Items'])
ScanNext ==
    /\ pc = "scan" /\ has_more /\ scans < MaxScans
    /\ \E page \in SeqsUpTo(ItemPool, MaxItems - Len(all_items)), more \in BOOLEAN :
          LET again == more /\ scans + 1 < MaxScans
          IN  /\ all_items' = all_items \o page
              /\ has_more' = again
              /\ pc' = IF again THEN "scan" ELSE "loaded"
    /\ scans' = scans + 1
    /\ UNCHANGED <<entry, sample_arg, schema_stats, entity_patterns, entered, filters, filtered_items,
                   simplified_items, sorted_keys, sink, outcome>>

\* dynamodb.scan raises (network, credentials, missing table): except Exception
ScanFail ==
    /\ entry = "scan"
    /\ pc \in {"start", "scan"}
    /\ pc' = "done"
    /\ outcome' = "error_scan"
    /\ UNCHANGED <<entry, sample_arg, has_more, scans, all_items, schema_stats, entity_patterns, entered, filters,
                   filtered_items, simplified_items, sorted_keys, sink>>

\* data = json.load(f); items = data.get('Items', [])
LoadJson ==
    /\ pc = "start" /\ entry = "json"
    /\ \E items \in SeqsUpTo(JsonItemPool, MaxItems) : all_items' = items
    /\ pc' = "loaded"
    /\ UNCHANGED <<entry, sample_arg, has_more, scans, schema_stats, entity_patterns, entered, filters,
                   filtered_items, simplified_items, sorted_keys, sink, outcome>>

\* open(json_file) or json.load raises: except Exception
LoadJsonFail ==
    /\ pc = "start" /\ entry = "json"
    /\ pc' = "done"
    /\ outcome' = "error_load"
    /\ UNCHANGED <<entry, sample_arg, has_more, scans, all_items, schema_stats, entity_patterns, entered, filters,
                   filtered_items, simplified_items, sorted_keys, sink>>

\* if not all_items: print("No items found ..."); return
\* else analyze_table_schema / detect_entity_types
Analyze ==
    /\ pc = "loaded"
    /\ IF all_items = <<>>
       THEN /\ pc' = "done"
            /\ outcome' = "no_items"
            /\ UNCHANGED <<schema_stats, entity_patterns>>
       ELSE /\ pc' = "prompt"
            /\ schema_stats' = analyze_table_schema(all_items, sample_size)
            /\ entity_patterns' = detect_entity_types(all_items, sample_size)
            /\ UNCHANGED outcome
    /\ UNCHANGED <<entry, sample_arg, has_more, scans, all_items, entered, filters, filtered_items,
                   simplified_items, sorted_keys, sink>>

\* prompt_for_filters: "Would you like to filter the data? (y/n)" answered y
AnswerYes ==
    /\ pc = "prompt"
    /\ pc' = "lines"
    /\ UNCHANGED <<entry, sample_arg, has_more, scans, all_items, schema_stats, entity_patterns, entered, filters,
                   filtered_items, simplified_items, sorted_keys, sink, outcome>>

\* the same prompt answered with anything not starting with y: filters stays {}
AnswerNo ==
    /\ pc = "prompt"
    /\ pc' = "filter"
    /\ UNCHANGED <<entry, sample_arg, has_more, scans, all_items, schema_stats, entity_patterns, entered, filters,
                   filtered_items, simplified_items, sorted_keys, sink, outcome>>

\* prompt_for_filters: one pass of "while True: filter_input = input(...).strip()"
ReadLine ==
    /\ pc = "lines"
    /\ \E line \in LinePool :
          LET filter_input == Strip(line)
          IN  IF filter_input = <<>>
              THEN /\ pc' = "filter"
                   /\ UNCHANGED <<entered, filters>>
              ELSE /\ Len(entered) < MaxLines
                   /\ entered' = Append(entered, line)
                   /\ filters' = IF Contains(filter_input, "=")
                                 THEN add_filter(filters, filter_input)
                                 ELSE filters
                   /\ UNCHANGED pc
    /\ UNCHANGED <<entry, sample_arg, has_more, scans, all_items, schema_stats, entity_patterns, filtered_items,
                   simplified_items, sorted_keys, sink, outcome>>

\* variant of ApplyFilters without the early return on an empty result
ApplyFilters_no_early_return ==
    /\ pc = "filter"
    /\ filtered_items' = apply_filters(all_items, filters)
    /\ pc' = "convert"
    /\ UNCHANGED <<entry, sample_arg, has_more, scans, all_items, schema_stats, entity_patterns, entered, filters,
                   simplified_items, sorted_keys, sink, outcome>>

\* filtered_items = apply_filters(all_items, filters)
\* if not filtered_items: print("No items match ..."); return
ApplyFilters ==
    /\ pc = "filter"
    /\ filtered_items' = apply_filters(all_items, filters)
    /\ IF filtered_items' = <<>>
       THEN pc' = "done" /\ outcome' = "no_match"
       ELSE pc' = "convert" /\ UNCHANGED outcome
    /\ UNCHANGED <<entry, sample_arg, has_more, scans, all_items, schema_stats, entity_patterns, entered, filters,
                   simplified_items, sorted_keys, sink>>

\* for item in filtered_items: simplified_items.append(convert_dynamodb_item_to_dict(item))
ConvertItem ==
    /\ pc = "convert"
    /\ Len(simplified_items) < Len(filtered_items)
    /\ LET r == convert_dynamodb_item_to_dict(filtered_items[Len(simplified_items) + 1])
       IN  IF r.ok
           THEN /\ simplified_items' = Append(simplified_items, r.row)
                /\ UNCHANGED <<pc, outcome>>
           ELSE /\ pc' = "done"
                /\ outcome' = "error_decode"
                /\ UNCHANGED simplified_items
    /\ UNCHANGED <<entry, sample_arg, has_more, scans, all_items, schema_stats, entity_patterns, entered, filters,
                   filtered_items, sorted_keys, sink>>

\* all_keys.update(item.keys()) for every row; sorted_keys = sorted(all_keys)
ComputeKeys ==
    /\ pc = "convert"
    /\ Len(simplified_items) = Len(filtered_items)
    /\ sorted_keys' = sorted(all_keys_of(simplified_items))
    /\ pc' = "write"
    /\ UNCHANGED <<entry, sample_arg, has_more, scans, all_items, schema_stats, entity_patterns, entered, filters,
                   filtered_items, simplified_items, sink, outcome>>

\* with open(output_file, 'w') ...: writer.writeheader(); writer.writerows(...)
WriteCsv ==
    /\ pc = "write"
    /\ sink' = [invoked |-> TRUE, columns |-> sorted_keys, rows |-> simplified_items]
    /\ pc' = "done"
    /\ outcome' = "exported"
    /\ UNCHANGED <<entry, sample_arg, has_more, scans, all_items, schema_stats, entity_patterns, entered, filters,
                   filtered_items, simplified_items, sorted_keys>>

\* open(output_file, 'w') raises (unwritable path): except Exception
WriteFail ==
    /\ pc = "write"
    /\ sink' = [invoked |-> TRUE, columns |-> <<>>, rows |-> <<>>]
    /\ pc' = "done"
    /\ outcome' = "error_sink"
    /\ UNCHANGED <<entry, sample_arg, has_more, scans, all_items, schema_stats, entity_patterns, entered, filters,
                   filtered_items, simplified_items, sorted_keys>>

Next ==
    \/ ScanFirst \/ ScanNext \/ ScanFail \/ LoadJson \/ LoadJsonFail
    \/ Analyze \/ AnswerYes \/ AnswerNo \/ ReadLine \/ ApplyFilters
    \/ ConvertItem \/ ComputeKeys \/ WriteCsv \/ WriteFail

Spec == Init /\ [][Next]_vars

(***************************************************************************)
(* The predicate engine on one item and one clause: the pipeline at the    *)
(* point where prompt_for_filters has returned {filter_key: filter_value}, *)
(* for every value shape of the attribute and every operand shape.         *)
(***************************************************************************)
kA == <<"a">>

ValuePool == {[S |-> <<>>], [S |-> <<"a">>], [S |-> <<"a", "b">>], [S |-> <<"b">>], [S |-> <<"T", "r", "u", "e">>],
              [S |-> <<"!", "=", "a">>], [S |-> <<"\"", "\"">>], [S |-> <<"*">>], [S |-> <<"A">>],
              [N |-> <<"1">>], [N |-> <<>>], [N |-> <<"a">>],
              [BOOL |-> TRUE], [BOOL |-> FALSE],
              [NULL |-> TRUE], [NULL |-> FALSE],
              [B |-> [bytes |-> <<"a">>]], [B |-> [b64 |-> <<"a">>]],
              [SS |-> <<<<"a">>>>], [NS |-> <<<<"1">>>>], [BS |-> <<[bytes |-> <<"a">>]>>],
              [L |-> <<[S |-> <<"a">>]>>], [L |-> <<>>],
              [M |-> [k |-> <<"a">>, v |-> [S |-> <<"a">>]]],
              [X |-> <<"a">>]}

OperandPool == {<<>>, <<"\"", "\"">>, <<"!", "=">>, <<"!", "=", "a">>, <<"!", "=", "1">>, <<"!", "=", "T", "r", "u", "e">>, <<"!", "=", "!", "=", "a">>, <<"!", "=", "*">>, <<"!", "=", "\"", "\"">>,
                <<"!", "=", "{", "'", "S", "S", "'", ":", " ", "[", "'", "a", "'", "]", "}">>, <<"!", "=", "{", "'", "N", "S", "'", ":", " ", "[", "'", "1", "'", "]", "}">>,
                <<"a">>, <<"a", "b">>, <<"b">>, <<"A">>, <<"1">>, <<"T", "r", "u", "e">>, <<"F", "a", "l", "s", "e">>, <<"!">>, <<"\"">>,
                <<"*">>, <<"a", "*">>, <<"*", "b">>, <<"a", "*", "b">>, <<"?">>, <<"a", "?">>, <<"*", "*">>, <<"T", "*", "e">>, <<"{", "*", "}">>,
                <<"{", "'", "S", "S", "'", ":", " ", "[", "'", "a", "'", "]", "}">>, <<"{", "'", "L", "'", ":", " ", "[", "]", "}">>}

FilterItems == {kPK :> [S |-> <<"p">>]}
               \cup {(kPK :> [S |-> <<"p">>]) @@ (kA :> v) : v \in ValuePool}

InitFilter ==
    /\ pc = "filter"
    /\ entry = "scan"
    /\ sample_arg = sample_size
    /\ has_more = FALSE
    /\ scans = 1
    /\ \E it \in FilterItems, op \in OperandPool :
          /\ all_items = <<it>>
          /\ entered = <<kA \o <<"=">> \o op>>
          /\ filters = <<<<kA, op>>>>
    /\ schema_stats = analyze_table_schema(all_items, sample_size)
    /\ entity_patterns = detect_entity_types(all_items, sample_size)
    /\ filtered_items = <<>>
    /\ simplified_items = <<>>
    /\ sorted_keys = <<>>
    /\ sink = NoSink
    /\ outcome = "running"

NextFilter == ApplyFilters

SpecFilter == InitFilter /\ [][NextFilter]_vars

(***************************************************************************)
(* The entity pattern detector on one item carrying any combination of     *)
(* two aliases of each key group.                                          *)
(***************************************************************************)
EntityKeys == <<type_keys[1], type_keys[4], sk_keys[2], sk_keys[3], pk_keys[2], pk_keys[3]>>

EntityValues == {[S |-> <<"A", "#", "1">>], [S |-> <<"B">>], [N |-> <<"1">>]}

\* every item whose attributes are drawn from EntityKeys (at least one)
EntityItems ==
    LET Pick == [1..Len(EntityKeys) -> EntityValues \cup {[X |-> <<>>]}]
        Dom(f) == {EntityKeys[i] : i \in {j \in 1..Len(EntityKeys) : "X" \notin DOMAIN f[j]}}
        Idx(k) == CHOOSE i \in 1..Len(EntityKeys) : EntityKeys[i] = k
    IN  {[k \in Dom(f) |-> f[Idx(k)]] : f \in {g \in Pick : Dom(g) /= {}}}

InitEntity ==
    /\ pc = "loaded"
    /\ entry = "scan"
    /\ sample_arg = sample_size
    /\ has_more = FALSE
    /\ scans = 1
    /\ \E it \in EntityItems : all_items = <<it>>
    /\ schema_stats = <<>>
    /\ entity_patterns = <<>>
    /\ entered = <<>>
    /\ filters = <<>>
    /\ filtered_items = <<>>
    /\ simplified_items = <<>>
    /\ sorted_keys = <<>>
    /\ sink = NoSink
    /\ outcome = "running"

NextEntity == Analyze

SpecEntity == InitEntity /\ [][NextEntity]_vars

(***************************************************************************)
(* The schema profiler called on a sequence of items with a given          *)
(* sample_size argument.  The item at position i either carries attribute  *)
(* a as a String not seen at any other position, or is the alternative of  *)
(* that position: a repeated String, a Number, or no attribute a at all.   *)
(***************************************************************************)
MaxProfileItems == 12

ProfileSampleSizes == {2, 11, sample_size}

\* a one-letter text, different for every position
FreshText(i) == <<Ascii[33 + i]>>

FreshItem(i) == (kPK :> [S |-> <<"p">>]) @@ (kA :> [S |-> FreshText(i)])

OtherItem(i) ==
    IF i % 3 = 0 THEN (kPK :> [S |-> <<"p">>]) @@ (kA :> [S |-> FreshText(1)])
    ELSE IF i % 3 = 1 THEN (kPK :> [N |-> <<"1">>]) @@ (kA :> [N |-> <<"1">>])
    ELSE kPK :> [S |-> <<"p">>]

ProfileInputs ==
    UNION {{[i \in 1..k |-> IF pick[i] THEN FreshItem(i) ELSE OtherItem(i)] :
              pick \in [1..k -> BOOLEAN]} : k \in 0..MaxProfileItems}

InitProfile ==
    /\ pc = "loaded"
    /\ entry = "json"
    /\ sample_arg \in ProfileSampleSizes
    /\ has_more = FALSE
    /\ scans = 0
    /\ all_items \in ProfileInputs
    /\ schema_stats = <<>>
    /\ entity_patterns = <<>>
    /\ entered = <<>>
    /\ filters = <<>>
    /\ filtered_items = <<>>
    /\ simplified_items = <<>>
    /\ sorted_keys = <<>>
    /\ sink = NoSink
    /\ outcome = "running"

\* schema_stats = analyze_table_schema(items, sample_size)
Profile ==
    /\ pc = "loaded"
    /\ schema_stats' = analyze_table_schema(all_items, sample_arg)
    /\ pc' = "profiled"
    /\ UNCHANGED <<entry, sample_arg, has_more, scans, all_items, entity_patterns, entered,
                   filters, filtered_items, simplified_items, sorted_keys, sink, outcome>>

NextProfile == Profile

SpecProfile == InitProfile /\ [][NextProfile]_vars

(***************************************************************************)
(* Vocabulary of the properties: the clause semantics as the specification *)
(* words it, stated independently of apply_filters.                        *)
(***************************************************************************)
\* apply_filters has returned in this run
Applied == \/ pc \in {"convert", "write"}
           \/ pc = "done" /\ outcome \in {"no_match", "exported", "error_decode", "error_sink"}

\* one item, one clause: the clause passed iff the item survived
OneClause == Applied /\ Len(all_items) = 1 /\ Len(filters) = 1

ClauseKey == filters[1][1]

ClauseOperand == filters[1][2]

ClausePassed == filtered_items = all_items

Front(t) == SubSeq(t, 1, Len(t) - 1)

\* shell-style glob, matched from the right end: * is any run, ? is any one character
RECURSIVE GlobR(_, _)
GlobR(name, pat) ==
    IF pat = <<>> THEN name = <<>>
    ELSE IF pat[Len(pat)] = "*"
         THEN \E k \in 0..Len(name) : GlobR(SubSeq(name, 1, k), Front(pat))
    ELSE IF pat[Len(pat)] = "?"
         THEN name /= <<>> /\ GlobR(Front(name), Front(pat))
    ELSE name /= <<>> /\ name[Len(name)] = pat[Len(pat)] /\ GlobR(Front(name), Front(pat))

\* comparison text of a raw value
CompText(v) ==
    CASE "S" \in DOMAIN v -> v.S
      [] "N" \in DOMAIN v -> v.N
      [] "BOOL" \in DOMAIN v -> (IF v.BOOL THEN <<"T", "r", "u", "e">> ELSE <<"F", "a", "l", "s", "e">>)
      [] "NULL" \in DOMAIN v -> <<>>
      [] OTHER -> PyRepr(v)

IsEmptySem(item, A) ==
    \/ A \notin DOMAIN item
    \/ A \in DOMAIN item /\ DOMAIN item[A] = {"NULL"} /\ item[A].NULL = TRUE
    \/ A \in DOMAIN item /\ DOMAIN item[A] = {"S"} /\ item[A].S = <<>>

NotEqualsSem(item, A, V) ==
    IF A \notin DOMAIN item THEN V /= <<>> ELSE CompText(item[A]) /= V

EqualsSem(item, A, V) ==
    /\ A \in DOMAIN item
    /\ IF Contains(V, "*") THEN GlobR(CompText(item[A]), V) ELSE CompText(item[A]) = V

\* the clause a <<key, operand>> entry of the filters dict stands for
ClauseSem(item, A, op) ==
    IF op = <<>> \/ op = EmptyQuotes THEN IsEmptySem(item, A)
    ELSE IF StartsWith(op, NotEqualsPrefix)
         THEN NotEqualsSem(item, A, SubSeq(op, 3, Len(op)))
    ELSE EqualsSem(item, A, op)

\* the items that pass every clause of a sequence, in input order
RECURSIVE KeepAll(_, _)
KeepAll(items, clauses) ==
    IF items = <<>> THEN <<>>
    ELSE (IF \A i \in 1..Len(clauses) : ClauseSem(Head(items), clauses[i][1], clauses[i][2])
          THEN <<Head(items)>> ELSE <<>>)
         \o KeepAll(Tail(items), clauses)

\* the clause each entered line with an "=" was parsed to, one per line
RECURSIVE EnteredClauses(_)
EnteredClauses(lines) ==
    IF lines = <<>> THEN <<>>
    ELSE (IF Contains(Strip(Head(lines)), "=")
          THEN LET kv == split1(Strip(Head(lines)), "=") IN <<<<Strip(kv[1]), Strip(kv[2])>>>>
          ELSE <<>>)
         \o EnteredClauses(Tail(lines))

(***************************************************************************)
(* C1                                                                      *)
(***************************************************************************)
\* a line of the form A!=V : the first "=" is preceded by "!"
NeForm(line) == LET p == IndexOf(line, "=") IN p >= 2 /\ line[p - 1] = "!"

NeAttr(line) == Strip(SubSeq(line, 1, IndexOf(line, "=") - 2))

NeOperand(line) == Strip(SubSeq(line, IndexOf(line, "=") + 1, Len(line)))

\* C1: a line A!=V is parsed to the not-equals clause on attribute A with
\* operand V (is-not-empty when V is empty), i.e. the dict entry A -> "!=V";
\* after entering status!=ACTIVE the item with status INACTIVE is kept and the
\* item with status ACTIVE is dropped.
C1_NotEqualsLineParsed ==
    /\ \A i \in 1..Len(entered) :
          (i = Len(entered) /\ NeForm(Strip(entered[i])))
          => \E j \in 1..Len(filters) :
                filters[j] = <<NeAttr(Strip(entered[i])),
                               NotEqualsPrefix \o NeOperand(Strip(entered[i]))>>
    /\ (Applied /\ entered = <<LineStatusNe>> /\ all_items = <<ItemInactive, ItemActive>>)
       => filtered_items = <<ItemInactive>>

(***************************************************************************)
(* C2                                                                      *)
(***************************************************************************)
\* C2: an item survives filtering iff every clause the operator entered passes
\* on it, also when two entered clauses name the same attribute.
C2_AllEnteredClausesApply ==
    Applied => filtered_items = KeepAll(all_items, EnteredClauses(entered))

(***************************************************************************)
(* C3                                                                      *)
(***************************************************************************)
\* C3: the is-not-empty clause (operand "!=") passes exactly when the is-empty
\* clause on the same attribute fails, and fails on an absent attribute.
C3_NotEmptyIsComplement ==
    (OneClause /\ ClauseOperand = NotEqualsPrefix)
    => /\ ClausePassed <=> ~IsEmptySem(all_items[1], ClauseKey)
       /\ ClauseKey \notin DOMAIN all_items[1] => ~ClausePassed

(***************************************************************************)
(* C4                                                                      *)
(***************************************************************************)
\* C4: an is-empty clause passes exactly when the attribute is absent, or is
\* Null=true, or is the String "" ; every other populated value fails it.
C4_IsEmptyExactlyThreeCases ==
    (OneClause /\ ClauseOperand = <<>>)
    => (ClausePassed <=> IsEmptySem(all_items[1], ClauseKey))

C4_Witness ==
    /\ OneClause /\ ClauseOperand = <<>>
    /\ ClauseKey \in DOMAIN all_items[1]
    /\ "NULL" \in DOMAIN all_items[1][ClauseKey]
    /\ ~all_items[1][ClauseKey].NULL
    /\ ~ClausePassed

C6_EqualsEveryNonEmptyOperand ==
    (OneClause /\ ClauseOperand /= <<>>)
    => (ClausePassed <=> EqualsSem(all_items[1], ClauseKey, ClauseOperand))

\* C6 amended: the same, for every non-empty operand that is not the two
\* characters "" and does not begin with != .
C6_EqualsOrdinaryOperand ==
    (OneClause /\ ClauseOperand /= <<>> /\ ClauseOperand /= EmptyQuotes
               /\ ~StartsWith(ClauseOperand, NotEqualsPrefix))
    => (ClausePassed <=> EqualsSem(all_items[1], ClauseKey, ClauseOperand))

C6_Witness ==
    /\ OneClause
    /\ Contains(ClauseOperand, "*") /\ Len(ClauseOperand) > 1
    /\ ~StartsWith(ClauseOperand, NotEqualsPrefix)
    /\ ClauseKey \in DOMAIN all_items[1]
    /\ "S" \in DOMAIN all_items[1][ClauseKey]
    /\ ClausePassed

(***************************************************************************)
(* C7                                                                      *)
(***************************************************************************)
\* C7: decoding is total: convert_dynamodb_item_to_dict returns a row for
\* every item that reaches it and never raises.
C7_DecodeNeverRaises ==
    /\ outcome /= "error_decode"
    /\ \A i \in 1..Len(filtered_items) : convert_dynamodb_item_to_dict(filtered_items[i]).ok

(***************************************************************************)
(* C8                                                                      *)
(***************************************************************************)
Analyzed == pc = "prompt" /\ Len(all_items) = 1

StringTyped(item, key) == key \in DOMAIN item /\ "S" \in DOMAIN item[key]

\* the position in its group of the first alias the item carries String-typed
\* (0 if there is none)
FirstAlias(item, keys) ==
    LET present == {i \in 1..Len(keys) : StringTyped(item, keys[i])}
    IN  IF present = {} THEN 0 ELSE CHOOSE i \in present : \A j \in present : i <= j

RECURSIVE SumCounts(_, _)
SumCounts(f, S) == IF S = {} THEN 0
                   ELSE LET x == CHOOSE y \in S : TRUE IN f[x] + SumCounts(f, S \ {x})

\* C8 as stated: in each key group only the first alias the item carries
\* (String-typed) is consulted, so the counts are those of the first aliases' labels.
C8_FirstAliasOnly ==
    Analyzed
    => LET item   == all_items[1]
           t      == FirstAlias(item, type_keys)
           s      == FirstAlias(item, sk_keys)
           p      == FirstAlias(item, pk_keys)
           labels == (IF t = 0 THEN <<>> ELSE type_labels(item, type_keys[t]))
                     \o (IF s = 0 THEN <<>> ELSE sk_labels(item, sk_keys[s]))
                     \o (IF p = 0 THEN <<>> ELSE pk_labels(item, pk_keys[p]))
       IN  entity_patterns
             = count_patterns(<<>>, IF labels = <<>> THEN <<LblUnknown>> ELSE labels)

\* C8 amended: every alias of a group that is present and String-typed is
\* consulted, in list order: each contributes its labels to the counts, and
\* the counts add up to the labels of all aliases (or the one label unknown).
C8_EveryAliasConsulted ==
    Analyzed
    => LET item  == all_items[1]
           total == SumCounts([i \in 1..4 |-> Len(type_labels(item, type_keys[i]))
                                              + Len(sk_labels(item, sk_keys[i]))
                                              + Len(pk_labels(item, pk_keys[i]))], 1..4)
       IN  /\ \A i \in 1..4 :
                /\ \A n \in 1..Len(type_labels(item, type_keys[i])) :
                      type_labels(item, type_keys[i])[n] \in DOMAIN entity_patterns
                /\ \A n \in 1..Len(sk_labels(item, sk_keys[i])) :
                      sk_labels(item, sk_keys[i])[n] \in DOMAIN entity_patterns
                /\ \A n \in 1..Len(pk_labels(item, pk_keys[i])) :
                      pk_labels(item, pk_keys[i])[n] \in DOMAIN entity_patterns
           /\ SumCounts(entity_patterns, DOMAIN entity_patterns)
                = (IF total = 0 THEN 1 ELSE total)

C8_Witness ==
    /\ Analyzed
    /\ StringTyped(all_items[1], sk_keys[2]) /\ StringTyped(all_items[1], sk_keys[3])
    /\ all_items[1][sk_keys[2]] /= all_items[1][sk_keys[3]]
    /\ Cardinality(DOMAIN entity_patterns) >= 2

(***************************************************************************)
(* C9                                                                      *)
(***************************************************************************)
\* C9: the sink is never invoked when there are no items or no survivors
\* (both terminal, not errors), nor after a failure of scan, load or decoding;
\* when it is invoked, all items have been filtered and every survivor decoded.
C9_SinkOnlyAfterFilterAndDecode ==
    /\ sink.invoked
       => /\ all_items /= <<>>
          /\ filtered_items /= <<>>
          /\ filtered_items = KeepAll(all_items, filters)
          /\ Len(simplified_items) = Len(filtered_items)
          /\ outcome \in {"exported", "error_sink"}
    /\ outcome \in {"no_items", "no_match", "error_scan", "error_load", "error_decode"}
       => ~sink.invoked /\ pc = "done"
    /\ (pc = "done" /\ all_items = <<>>)
       => outcome \in {"no_items", "error_scan", "error_load"}
    /\ (pc = "done" /\ Applied /\ filtered_items = <<>>) => outcome = "no_match"

C9_Witness ==
    /\ sink.invoked /\ outcome = "exported"
    /\ Len(filtered_items) < Len(all_items)
    /\ Len(all_items) = MaxItems

(***************************************************************************)
(* C10                                                                     *)
(***************************************************************************)
RowUser1 == (kPK :> [str |-> <<"U", "S", "E", "R", "#", "1">>]) @@ (kSK :> [str |-> <<"P", "R", "O", "F", "I", "L", "E", "#", "1">>]) @@ (kAge :> [int |-> 30])

RowUser2 == (kPK :> [str |-> <<"U", "S", "E", "R", "#", "2">>]) @@ (kSK :> [str |-> <<"O", "R", "D", "E", "R", "#", "9">>]) @@ (kAge :> [int |-> 41])

\* C10: the rows handed to the sink are the decoded survivors, one per
\* survivor in input order; the columns are the sorted duplicate-free union of
\* the rows' keys; an empty clause set passes all items; the two-item scenario
\* gives 2 rows with columns PK, SK, age, and SK=PROFILE* gives the USER#1 row.
C10_RowsAndColumns ==
    (sink.invoked /\ outcome = "exported")
    => LET survivors == KeepAll(all_items, filters)
       IN  /\ Len(sink.rows) = Len(survivors)
           /\ \A i \in 1..Len(survivors) :
                 sink.rows[i] = convert_dynamodb_item_to_dict(survivors[i]).row
           /\ \A i \in 1..(Len(sink.columns) - 1) :
                 StrLess(sink.columns[i], sink.columns[i + 1])
           /\ {sink.columns[i] : i \in 1..Len(sink.columns)}
                = UNION {DOMAIN sink.rows[i] : i \in 1..Len(sink.rows)}
           /\ filters = <<>> => Len(sink.rows) = Len(all_items)
           /\ (all_items = <<ItemUser1, ItemUser2>> /\ filters = <<>>)
              => sink.rows = <<RowUser1, RowUser2>> /\ sink.columns = <<kPK, kSK, kAge>>
           /\ (all_items = <<ItemUser1, ItemUser2>> /\ entered = <<LineSKProfile>>)
              => sink.rows = <<RowUser1>>

C10_Witness ==
    /\ sink.invoked /\ outcome = "exported"
    /\ all_items = <<ItemUser1, ItemUser2>>
    /\ entered = <<LineSKProfile>>
    /\ Len(sink.rows) = 1

(***************************************************************************)
(* C11                                                                     *)
(***************************************************************************)
Profiled == pc = "profiled"

\* how many items the profiler reads
SampleLen == IF Len(all_items) < sample_arg THEN Len(all_items) ELSE sample_arg

\* the String values of attribute A in the first m items, in order
RECURSIVE StringsSeen(_, _, _)
StringsSeen(items, A, m) ==
    IF m = 0 THEN <<>>
    ELSE StringsSeen(items, A, m - 1)
         \o (IF A \in DOMAIN items[m] /\ "S" \in DOMAIN items[m][A]
             THEN <<items[m][A].S>> ELSE <<>>)

\* the first cap distinct elements of a sequence, as a set
RECURSIVE FirstDistinct(_, _, _)
FirstDistinct(seen, values, cap) ==
    IF values = <<>> \/ Cardinality(seen) >= cap THEN seen
    ELSE FirstDistinct(seen \cup {Head(values)}, Tail(values), cap)

\* C11: the profiler reads the first min(len, sample_size) items only: every
\* attribute's count is the number of sampled items containing it (at most
\* min(len, sample_size)), items beyond the sample do not change the result,
\* every attribute keeps at most 10 sample values, namely the first distinct
\* String values seen for it in sample order, and the items are left as they were.
C11_ProfilerReadsSampleOnly ==
    /\ [](Profiled =>
            /\ DOMAIN schema_stats = UNION {DOMAIN all_items[i] : i \in 1..SampleLen}
            /\ \A A \in DOMAIN schema_stats :
                  /\ schema_stats[A].count
                       = Cardinality({i \in 1..SampleLen : A \in DOMAIN all_items[i]})
                  /\ schema_stats[A].count <= SampleLen
                  /\ Cardinality(schema_stats[A].sample_values) <= 10
                  /\ schema_stats[A].sample_values
                       = FirstDistinct({}, StringsSeen(all_items, A, SampleLen), 10)
            /\ schema_stats
                 = analyze_table_schema(SubSeq(all_items, 1, SampleLen), sample_arg))
    /\ [][Profiled' => all_items' = all_items]_vars

C11_Witness ==
    /\ Profiled
    /\ Len(all_items) > sample_arg
    /\ kA \in DOMAIN all_items[Len(all_items)]
    /\ Cardinality(schema_stats[kA].sample_values) = 10
    /\ Cardinality({StringsSeen(all_items, kA, SampleLen)[i] :
                      i \in 1..Len(StringsSeen(all_items, kA, SampleLen))}) > 10

====
